---- MODULE Spec2Model ----
(***************************************************************************)
(* Proposal engine of the DAO contract (src/src/proposals.rs): the         *)
(* proposal store, vote recording, status transitions, effect dispatch and *)
(* the callback that reconciles a dispatched effect.                       *)
(*                                                                         *)
(* Every public method runs as one atomic step.  A panic (assert!,         *)
(* expect, panic!, env::panic_str) aborts the call: the host discards      *)
(* every write and every promise the call made, so a panicking call        *)
(* changes nothing but the outcome recorded in `last`.                     *)
(*                                                                         *)
(* crate::policy and crate::types are not part of the sources at hand;     *)
(* the operators that stand for them follow the specification's contract   *)
(* for the policy evaluator (permission check, status derivation).         *)
(***************************************************************************)
EXTENDS Integers, Sequences, FiniteSets, TLC

\* ------------------------------------------------------------------ bounds
MaxProposals == 2
OneProposal == 1
MaxTime == 1
MaxPending == 2

\* ------------------------------------------------------------ value spaces
Accounts == {"alice", "bob", "eve"}

Actions ==
    {"AddProposal", "RemoveProposal", "VoteApprove", "VoteReject",
     "VoteRemove", "Finalize", "MoveToHub"}

VoteActions == {"VoteApprove", "VoteReject", "VoteRemove"}

ProposalStatus ==
    {"InProgress", "Approved", "Rejected", "Removed", "Expired", "Moved", "Failed"}

\* Option<T>: None is the empty sequence, Some(x) is <<x>>.
None == <<>>
Some(x) == <<x>>

OLD_BASE_TOKEN == ""

Ids == 0 .. (MaxProposals - 1)

\* enum Vote { Approve = 0x0, Reject = 0x1, Remove = 0x2 }, used as an index
\* into [Balance; 3]; TLA+ sequences are 1-based.
VoteIndex(vote) ==
    CASE vote = "Approve" -> 1
      [] vote = "Reject" -> 2
      [] vote = "Remove" -> 3

\* impl From<Action> for Vote
VoteFrom(action) ==
    CASE action = "VoteApprove" -> "Approve"
      [] action = "VoteReject" -> "Reject"
      [] action = "VoteRemove" -> "Remove"

\* ProposalKind::to_policy_label
to_policy_label(kind) ==
    CASE kind.tag = "ChangeConfig" -> "config"
      [] kind.tag = "ChangePolicy" -> "policy"
      [] kind.tag = "AddMemberToRole" -> "add_member_to_role"
      [] kind.tag = "RemoveMemberFromRole" -> "remove_member_from_role"
      [] kind.tag = "FunctionCall" -> "call"
      [] kind.tag = "UpgradeSelf" -> "upgrade_self"
      [] kind.tag = "UpgradeRemote" -> "upgrade_remote"
      [] kind.tag = "Transfer" -> "transfer"
      [] kind.tag = "Vote" -> "vote"
      [] kind.tag = "ChangePolicyAddOrUpdateRole" -> "policy_add_or_update_role"
      [] kind.tag = "ChangePolicyRemoveRole" -> "policy_remove_role"
      [] kind.tag = "ChangePolicyUpdateDefaultVotePolicy" ->
            "policy_update_default_vote_policy"
      [] kind.tag = "ChangePolicyUpdateParameters" -> "policy_update_parameters"
      [] kind.tag = "Suggestion" -> "give a suggestion"

\* --------------------------------------------------- policy (crate::policy)
\* A policy is [roles, default_vote_policy, proposal_period]; roles is the
\* ordered list of RolePermission = [name, members, permissions], a permission
\* being <<kind label or "*", action>>.

CouncilRole ==
    [name |-> "council", members |-> {"alice", "bob"},
     permissions |-> {<<"*", a>> : a \in Actions}]

CommunityRole ==
    [name |-> "community", members |-> {"bob"},
     permissions |-> {<<l, a>> : l \in {"vote", "call"}, a \in {"AddProposal"} \cup VoteActions}]

ShortPeriod == 0
LongPeriod == 2

InitialPolicy ==
    [roles |-> <<CouncilRole, CommunityRole>>,
     default_vote_policy |-> [weight_kind |-> "RoleWeight"],
     proposal_period |-> ShortPeriod]

WeightedPolicy ==
    [InitialPolicy EXCEPT !.default_vote_policy = [weight_kind |-> "TokenWeight"]]

\* Policy::is_token_weighted(role, label)
is_token_weighted(policy, role, label) ==
    policy.default_vote_policy.weight_kind = "TokenWeight"

RoleNames(policy) == [i \in 1 .. Len(policy.roles) |-> policy.roles[i].name]

RoleAllows(role, account, label, action) ==
    /\ account \in role.members
    /\ (<<label, action>> \in role.permissions \/ <<"*", action>> \in role.permissions)

\* The names of the roles that grant the action to the account, in policy order.
RECURSIVE MatchingRoles(_, _, _, _)
MatchingRoles(roles, account, label, action) ==
    IF roles = <<>> THEN <<>>
    ELSE LET r == Head(roles)
             rest == MatchingRoles(Tail(roles), account, label, action)
         IN IF RoleAllows(r, account, label, action) THEN <<r.name>> \o rest ELSE rest

\* Policy::can_execute_action(user, kind, action) -> (roles, allowed): the
\* roles of the user that grant the action on this kind of proposal, and
\* whether there is any.
can_execute_action(policy, user, kind, action) ==
    LET roles == MatchingRoles(policy.roles, user.account_id, to_policy_label(kind), action)
    IN [roles |-> roles, allowed |-> roles # <<>>]

RoleNamed(policy, name) ==
    LET hits == {i \in 1 .. Len(policy.roles) : policy.roles[i].name = name}
    IN IF hits = {} THEN None ELSE Some(policy.roles[CHOOSE i \in hits : \A j \in hits : i <= j])

\* Votes needed in a role: more than half of its members.
Threshold(role) == (Cardinality(role.members) \div 2) + 1

Counts(proposal, role) ==
    IF role \in DOMAIN proposal.vote_counts THEN proposal.vote_counts[role] ELSE <<0, 0, 0>>

\* What the tally of one role decides, or None.
RoleVerdict(policy, proposal, name) ==
    LET found == RoleNamed(policy, name)
    IN IF found = None THEN None
       ELSE LET t == Threshold(found[1])
                c == Counts(proposal, name)
            IN IF c[1] >= t THEN Some("Approved")
               ELSE IF c[2] >= t THEN Some("Rejected")
               ELSE IF c[3] >= t THEN Some("Removed")
               ELSE None

RECURSIVE FirstVerdict(_, _, _)
FirstVerdict(policy, proposal, roles) ==
    IF roles = <<>> THEN None
    ELSE LET v == RoleVerdict(policy, proposal, Head(roles))
         IN IF v # None THEN v ELSE FirstVerdict(policy, proposal, Tail(roles))

\* Policy::proposal_status(proposal, roles): Expired once the voting period
\* has elapsed, else what the tally of the first decided role says, else the
\* status the proposal has.
proposal_status(policy, proposal, roles, block_timestamp) ==
    IF proposal.submission_time + policy.proposal_period < block_timestamp
    THEN "Expired"
    ELSE LET v == FirstVerdict(policy, proposal, roles)
         IN IF v # None THEN v[1] ELSE proposal.status

ReplaceRoles(policy, roles) == [policy EXCEPT !.roles = roles]

\* Policy::add_member_to_role
add_member_to_role(policy, role, member_id) ==
    ReplaceRoles(policy,
        [i \in 1 .. Len(policy.roles) |->
            IF policy.roles[i].name = role
            THEN [policy.roles[i] EXCEPT !.members = @ \cup {member_id}]
            ELSE policy.roles[i]])

\* Policy::remove_member_from_role
remove_member_from_role(policy, role, member_id) ==
    ReplaceRoles(policy,
        [i \in 1 .. Len(policy.roles) |->
            IF policy.roles[i].name = role
            THEN [policy.roles[i] EXCEPT !.members = @ \ {member_id}]
            ELSE policy.roles[i]])

\* Policy::remove_role
remove_role(policy, role) ==
    ReplaceRoles(policy, SelectSeq(policy.roles, LAMBDA r : r.name # role))

\* Policy::add_or_update_role: replace the role of that name, or append it.
add_or_update_role(policy, role) ==
    IF \E i \in 1 .. Len(policy.roles) : policy.roles[i].name = role.name
    THEN ReplaceRoles(policy,
            [i \in 1 .. Len(policy.roles) |->
                IF policy.roles[i].name = role.name THEN role ELSE policy.roles[i]])
    ELSE ReplaceRoles(policy, Append(policy.roles, role))

\* Policy::update_default_vote_policy
update_default_vote_policy(policy, vote_policy) ==
    [policy EXCEPT !.default_vote_policy = vote_policy]

\* Policy::update_parameters: PolicyParameters { proposal_period: Option<U64> }
update_parameters(policy, parameters) ==
    IF parameters.proposal_period = None THEN policy
    ELSE [policy EXCEPT !.proposal_period = parameters.proposal_period[1]]

\* VersionedPolicy::to_policy: the stored policy is always a Current one here.
to_policy(versioned) == versioned.policy

\* crate::types::convert_old_to_new_token
convert_old_to_new_token(token_id) ==
    IF token_id = OLD_BASE_TOKEN THEN None ELSE Some(token_id)

\* ------------------------------------------------------------- proposals
\* The contract is threaded through the methods as the record
\*   self = [proposals, last_proposal_id, policy, config, promises]
\* proposals: the LookupMap, a function from the ids present to Proposal;
\* promises: the promises the running call has created.
\* env = [predecessor_account_id, block_timestamp, block_height].
\* A method returns [panic, self, ret]: panic is "" when the call returns.

Ok(self, ret) == [panic |-> "", self |-> self, ret |-> ret]
Panic(self, msg) == [panic |-> msg, self |-> self, ret |-> None]

\* update_votes without its assertion: a second vote of an account replaces
\* its first and is counted again.
update_votes_overwriting(proposal, account_id, roles, vote, policy, block_height) ==
    LET Bump(counts, role) ==
            LET old == IF role \in DOMAIN counts THEN counts[role] ELSE <<0, 0, 0>>
                new == [old EXCEPT ![VoteIndex(vote)] = @ + 1]
            IN [r \in DOMAIN counts \cup {role} |-> IF r = role THEN new ELSE counts[r]]
        BumpAll[i \in 0 .. Len(roles)] ==
            IF i = 0 THEN proposal.vote_counts ELSE Bump(BumpAll[i - 1], roles[i])
        entry == [vote |-> vote, blocknumber |-> block_height]
    IN [panic |-> "",
        proposal |-> [proposal EXCEPT
            !.vote_counts = BumpAll[Len(roles)],
            !.votes = [a \in DOMAIN proposal.votes \cup {account_id} |->
                            IF a = account_id THEN entry ELSE proposal.votes[a]]]]

\* update_votes with a token-weighted vote counting for more than one.
update_votes_token_weight(proposal, account_id, roles, vote, policy, block_height) ==
    LET label == to_policy_label(proposal.kind)
        amount(role) == IF is_token_weighted(policy, role, label) THEN 2 ELSE 1
        Bump(counts, role) ==
            LET old == IF role \in DOMAIN counts THEN counts[role] ELSE <<0, 0, 0>>
                new == [old EXCEPT ![VoteIndex(vote)] = @ + amount(role)]
            IN [r \in DOMAIN counts \cup {role} |-> IF r = role THEN new ELSE counts[r]]
        BumpAll[i \in 0 .. Len(roles)] ==
            IF i = 0 THEN proposal.vote_counts ELSE Bump(BumpAll[i - 1], roles[i])
        entry == [vote |-> vote, blocknumber |-> block_height]
    IN [panic |-> IF account_id \in DOMAIN proposal.votes THEN "ERR_ALREADY_VOTED" ELSE "",
        proposal |-> [proposal EXCEPT
            !.vote_counts = BumpAll[Len(roles)],
            !.votes = [a \in DOMAIN proposal.votes \cup {account_id} |->
                            IF a = account_id THEN entry ELSE proposal.votes[a]]]]

\* update_votes that bumps the counts and records no entry in votes.
update_votes_unrecorded(proposal, account_id, roles, vote, policy, block_height) ==
    LET Bump(counts, role) ==
            LET old == IF role \in DOMAIN counts THEN counts[role] ELSE <<0, 0, 0>>
                new == [old EXCEPT ![VoteIndex(vote)] = @ + 1]
            IN [r \in DOMAIN counts \cup {role} |-> IF r = role THEN new ELSE counts[r]]
        BumpAll[i \in 0 .. Len(roles)] ==
            IF i = 0 THEN proposal.vote_counts ELSE Bump(BumpAll[i - 1], roles[i])
    IN [panic |-> IF account_id \in DOMAIN proposal.votes THEN "ERR_ALREADY_VOTED" ELSE "",
        proposal |-> [proposal EXCEPT !.vote_counts = BumpAll[Len(roles)]]]

\* Proposal::update_votes: the counts are bumped first, then the insert into
\* votes is asserted to be a fresh one.
update_votes(proposal, account_id, roles, vote, policy, block_height) ==
    LET label == to_policy_label(proposal.kind)
        amount(role) == IF is_token_weighted(policy, role, label) THEN 1 ELSE 1
        Bump(counts, role) ==
            LET old == IF role \in DOMAIN counts THEN counts[role] ELSE <<0, 0, 0>>
                new == [old EXCEPT ![VoteIndex(vote)] = @ + amount(role)]
            IN [r \in DOMAIN counts \cup {role} |-> IF r = role THEN new ELSE counts[r]]
        BumpAll[i \in 0 .. Len(roles)] ==
            IF i = 0 THEN proposal.vote_counts ELSE Bump(BumpAll[i - 1], roles[i])
        counted == [proposal EXCEPT !.vote_counts = BumpAll[Len(roles)]]
        entry == [vote |-> vote, blocknumber |-> block_height]
        inserted ==
            [counted EXCEPT !.votes =
                [a \in DOMAIN proposal.votes \cup {account_id} |->
                    IF a = account_id THEN entry ELSE proposal.votes[a]]]
    IN [panic |-> IF account_id \in DOMAIN proposal.votes THEN "ERR_ALREADY_VOTED" ELSE "",
        proposal |-> inserted]

\* The conversion taking the contract's own account for the proposer.
ProposalFrom_current_account(input, env) ==
    [proposer |-> "dao",
     description |-> input.description,
     kind |-> input.kind,
     status |-> "InProgress",
     vote_counts |-> <<>>,
     votes |-> <<>>,
     threshold_block |-> None,
     submission_time |-> env.block_timestamp]

\* impl From<ProposalInput> for Proposal
ProposalFrom(input, env) ==
    [proposer |-> env.predecessor_account_id,
     description |-> input.description,
     kind |-> input.kind,
     status |-> "InProgress",
     vote_counts |-> <<>>,
     votes |-> <<>>,
     threshold_block |-> None,
     submission_time |-> env.block_timestamp]

\* A promise: the account it targets, the call and its arguments, and the
\* proposal id of the on_proposal_callback chained to it (None: no callback).
Promise(target, method, args) ==
    [target |-> target, method |-> method, args |-> args, callback |-> None]

\* internal_payout paying in the native token whatever token is named.
internal_payout_always_native(token_id, receiver_id, amount, memo, msg) ==
    Promise(receiver_id, "transfer", <<amount>>)

\* Contract::internal_payout -> PromiseOrValue (always a promise)
internal_payout(token_id, receiver_id, amount, memo, msg) ==
    IF token_id = None
    THEN Promise(receiver_id, "transfer", <<amount>>)
    ELSE IF msg # None
         THEN Promise(token_id[1], "ft_transfer_call", <<receiver_id, amount, Some(memo), msg[1]>>)
         ELSE Promise(token_id[1], "ft_transfer", <<receiver_id, amount, Some(memo)>>)

\* crate::upgrade::upgrade_using_factory / upgrade_remote: the trigger handed
\* to the upgrade collaborator; nothing of this contract's state changes.
upgrade_using_factory(hash) == Promise("factory", "upgrade_using_factory", <<hash>>)

upgrade_remote(receiver_id, method_name, hash) ==
    Promise(receiver_id, "upgrade_remote", <<method_name, hash>>)

SetPolicy(self, policy) ==
    [self EXCEPT !.policy = [version |-> "Current", policy |-> policy]]

\* internal_execute_proposal returning the promise without chaining the callback.
internal_execute_proposal_unchained(self, policy, proposal, proposal_id) ==
    LET kind == proposal.kind
        Value(s) == [self |-> s, promise |-> None]
        Pending(p) == [self |-> self, promise |-> Some(p)]
        Fired(p) == [self |-> [self EXCEPT !.promises = Append(@, p)], promise |-> None]
        result ==
            CASE kind.tag = "ChangeConfig" -> Value([self EXCEPT !.config = kind.config])
              [] kind.tag = "ChangePolicy" -> Value([self EXCEPT !.policy = kind.policy])
              [] kind.tag = "AddMemberToRole" ->
                    Value(SetPolicy(self, add_member_to_role(policy, kind.role, kind.member_id)))
              [] kind.tag = "RemoveMemberFromRole" ->
                    Value(SetPolicy(self, remove_member_from_role(policy, kind.role, kind.member_id)))
              [] kind.tag = "FunctionCall" ->
                    Pending(Promise(kind.receiver_id, "function_call", kind.actions))
              [] kind.tag = "UpgradeSelf" -> Fired(upgrade_using_factory(kind.hash))
              [] kind.tag = "UpgradeRemote" ->
                    Fired(upgrade_remote(kind.receiver_id, kind.method_name, kind.hash))
              [] kind.tag = "Transfer" ->
                    Pending(internal_payout(convert_old_to_new_token(kind.token_id),
                                            kind.receiver_id, kind.amount,
                                            proposal.description, kind.msg))
              [] kind.tag = "Vote" -> Value(self)
              [] kind.tag = "ChangePolicyAddOrUpdateRole" ->
                    Value(SetPolicy(self, add_or_update_role(policy, kind.role)))
              [] kind.tag = "ChangePolicyRemoveRole" ->
                    Value(SetPolicy(self, remove_role(policy, kind.role)))
              [] kind.tag = "ChangePolicyUpdateDefaultVotePolicy" ->
                    Value(SetPolicy(self, update_default_vote_policy(policy, kind.vote_policy)))
              [] kind.tag = "ChangePolicyUpdateParameters" ->
                    Value(SetPolicy(self, update_parameters(policy, kind.parameters)))
              [] kind.tag = "Suggestion" -> Value(self)
    IN IF result.promise # None
       THEN [result.self EXCEPT !.promises = Append(@, result.promise[1])]
       ELSE result.self

\* Contract::internal_execute_proposal: the state change or the promise of
\* the proposal's kind; a promise gets on_proposal_callback(proposal_id)
\* chained to it.
internal_execute_proposal(self, policy, proposal, proposal_id) ==
    LET kind == proposal.kind
        Value(s) == [self |-> s, promise |-> None]
        Pending(p) == [self |-> self, promise |-> Some(p)]
        Fired(p) == [self |-> [self EXCEPT !.promises = Append(@, p)], promise |-> None]
        result ==
            CASE kind.tag = "ChangeConfig" -> Value([self EXCEPT !.config = kind.config])
              [] kind.tag = "ChangePolicy" -> Value([self EXCEPT !.policy = kind.policy])
              [] kind.tag = "AddMemberToRole" ->
                    Value(SetPolicy(self, add_member_to_role(policy, kind.role, kind.member_id)))
              [] kind.tag = "RemoveMemberFromRole" ->
                    Value(SetPolicy(self, remove_member_from_role(policy, kind.role, kind.member_id)))
              [] kind.tag = "FunctionCall" ->
                    Pending(Promise(kind.receiver_id, "function_call", kind.actions))
              [] kind.tag = "UpgradeSelf" -> Fired(upgrade_using_factory(kind.hash))
              [] kind.tag = "UpgradeRemote" ->
                    Fired(upgrade_remote(kind.receiver_id, kind.method_name, kind.hash))
              [] kind.tag = "Transfer" ->
                    Pending(internal_payout(convert_old_to_new_token(kind.token_id),
                                            kind.receiver_id, kind.amount,
                                            proposal.description, kind.msg))
              [] kind.tag = "Vote" -> Value(self)
              [] kind.tag = "ChangePolicyAddOrUpdateRole" ->
                    Value(SetPolicy(self, add_or_update_role(policy, kind.role)))
              [] kind.tag = "ChangePolicyRemoveRole" ->
                    Value(SetPolicy(self, remove_role(policy, kind.role)))
              [] kind.tag = "ChangePolicyUpdateDefaultVotePolicy" ->
                    Value(SetPolicy(self, update_default_vote_policy(policy, kind.vote_policy)))
              [] kind.tag = "ChangePolicyUpdateParameters" ->
                    Value(SetPolicy(self, update_parameters(policy, kind.parameters)))
              [] kind.tag = "Suggestion" -> Value(self)
    IN IF result.promise # None
       THEN [result.self EXCEPT !.promises =
                Append(@, [result.promise[1] EXCEPT !.callback = Some(proposal_id)])]
       ELSE result.self

\* Contract::internal_callback_proposal_success
internal_callback_proposal_success(proposal) == [proposal EXCEPT !.status = "Approved"]

\* internal_callback_proposal_fail marking the proposal Rejected.
internal_callback_proposal_fail_rejected(proposal) == [proposal EXCEPT !.status = "Rejected"]

\* Contract::internal_callback_proposal_fail
internal_callback_proposal_fail(proposal) == [proposal EXCEPT !.status = "Failed"]

\* Contract::internal_user_info
internal_user_info(env) == [account_id |-> env.predecessor_account_id, stake |-> 1]

\* LookupMap::insert / LookupMap::remove on self.proposals
Insert(self, id, proposal) ==
    [self EXCEPT !.proposals =
        [i \in DOMAIN self.proposals \cup {id} |-> IF i = id THEN proposal ELSE self.proposals[i]]]

Remove(self, id) ==
    [self EXCEPT !.proposals = [i \in DOMAIN self.proposals \ {id} |-> self.proposals[i]]]

\* add_proposal taking the number of stored proposals as the new id.
add_proposal_counting_ids(self, env, proposal) ==
    LET policy == to_policy(self.policy)
        kind == proposal.kind
        id == Cardinality(DOMAIN self.proposals)
    IN IF kind.tag = "ChangePolicy" /\ kind.policy.version # "Current"
       THEN Panic(self, "ERR_INVALID_POLICY")
       ELSE IF kind.tag = "Transfer" /\ ~(~(kind.token_id = OLD_BASE_TOKEN) \/ kind.msg = None)
       THEN Panic(self, "ERR_BASE_TOKEN_NO_MSG")
       ELSE IF ~can_execute_action(policy, internal_user_info(env), kind, "AddProposal").allowed
       THEN Panic(self, "ERR_PERMISSION_DENIED")
       ELSE Ok([Insert(self, id, ProposalFrom(proposal, env)) EXCEPT !.last_proposal_id = id + 1],
               Some(id))

\* add_proposal that does not move the counter.
add_proposal_keeping_counter(self, env, proposal) ==
    LET policy == to_policy(self.policy)
        kind == proposal.kind
        id == self.last_proposal_id
    IN IF kind.tag = "ChangePolicy" /\ kind.policy.version # "Current"
       THEN Panic(self, "ERR_INVALID_POLICY")
       ELSE IF kind.tag = "Transfer" /\ ~(~(kind.token_id = OLD_BASE_TOKEN) \/ kind.msg = None)
       THEN Panic(self, "ERR_BASE_TOKEN_NO_MSG")
       ELSE IF ~can_execute_action(policy, internal_user_info(env), kind, "AddProposal").allowed
       THEN Panic(self, "ERR_PERMISSION_DENIED")
       ELSE Ok(Insert(self, id, ProposalFrom(proposal, env)), Some(id))

\* add_proposal without the validation of the kind.
add_proposal_unvalidated(self, env, proposal) ==
    LET policy == to_policy(self.policy)
        kind == proposal.kind
        id == self.last_proposal_id
    IN IF ~can_execute_action(policy, internal_user_info(env), kind, "AddProposal").allowed
       THEN Panic(self, "ERR_PERMISSION_DENIED")
       ELSE Ok([Insert(self, id, ProposalFrom(proposal, env)) EXCEPT !.last_proposal_id = id + 1],
               Some(id))

\* Contract::add_proposal -> the id of the new proposal
add_proposal(self, env, proposal) ==
    LET policy == to_policy(self.policy)
        kind == proposal.kind
        id == self.last_proposal_id
    IN IF kind.tag = "ChangePolicy" /\ kind.policy.version # "Current"
       THEN Panic(self, "ERR_INVALID_POLICY")
       ELSE IF kind.tag = "Transfer" /\ ~(~(kind.token_id = OLD_BASE_TOKEN) \/ kind.msg = None)
       THEN Panic(self, "ERR_BASE_TOKEN_NO_MSG")
       ELSE IF ~can_execute_action(policy, internal_user_info(env), kind, "AddProposal").allowed
       THEN Panic(self, "ERR_PERMISSION_DENIED")
       ELSE Ok([Insert(self, id, ProposalFrom(proposal, env)) EXCEPT !.last_proposal_id = id + 1],
               Some(id))

\* The vote arm without the assertion that the proposal is InProgress.
VoteArm_any_status(self, env, id, proposal, policy, roles, action) ==
    LET voted == update_votes(proposal, env.predecessor_account_id, roles,
                              VoteFrom(action), policy, env.block_height)
        status == proposal_status(policy, voted.proposal, roles, env.block_timestamp)
        updated == [voted.proposal EXCEPT !.status = status]
    IN IF voted.panic # "" THEN Panic(self, voted.panic)
       ELSE IF status = "Approved"
       THEN Ok(Insert(internal_execute_proposal(self, policy, updated, id), id, updated), None)
       ELSE IF status = "Removed"
       THEN Ok(Remove(self, id), None)
       ELSE Ok(Insert(self, id, updated), None)

\* The vote arm leaving expiry to Finalize: a vote for which the policy
\* derives Expired is recorded with the proposal still InProgress.
VoteArm_expiry_left_to_finalize(self, env, id, proposal, policy, roles, action) ==
    IF proposal.status # "InProgress"
    THEN Panic(self, "ERR_PROPOSAL_NOT_READY_FOR_VOTE")
    ELSE LET voted == update_votes(proposal, env.predecessor_account_id, roles,
                                   VoteFrom(action), policy, env.block_height)
             derived == proposal_status(policy, voted.proposal, roles, env.block_timestamp)
             status == IF derived = "Expired" THEN "InProgress" ELSE derived
             updated == [voted.proposal EXCEPT !.status = status]
         IN IF voted.panic # "" THEN Panic(self, voted.panic)
            ELSE IF status = "Approved"
            THEN Ok(Insert(internal_execute_proposal(self, policy, updated, id), id, updated),
                    None)
            ELSE IF status = "Removed"
            THEN Ok(Remove(self, id), None)
            ELSE Ok(Insert(self, id, updated), None)

\* The vote arm writing a proposal voted to removal back with status Removed
\* instead of deleting it.
VoteArm_keeping_removed(self, env, id, proposal, policy, roles, action) ==
    IF proposal.status # "InProgress"
    THEN Panic(self, "ERR_PROPOSAL_NOT_READY_FOR_VOTE")
    ELSE LET voted == update_votes(proposal, env.predecessor_account_id, roles,
                                   VoteFrom(action), policy, env.block_height)
             status == proposal_status(policy, voted.proposal, roles, env.block_timestamp)
             updated == [voted.proposal EXCEPT !.status = status]
         IN IF voted.panic # "" THEN Panic(self, voted.panic)
            ELSE IF status = "Approved"
            THEN Ok(Insert(internal_execute_proposal(self, policy, updated, id), id, updated),
                    None)
            ELSE Ok(Insert(self, id, updated), None)

\* Contract::act_proposal, the VoteApprove | VoteReject | VoteRemove arm
VoteArm(self, env, id, proposal, policy, roles, action) ==
    IF proposal.status # "InProgress"
    THEN Panic(self, "ERR_PROPOSAL_NOT_READY_FOR_VOTE")
    ELSE LET voted == update_votes(proposal, env.predecessor_account_id, roles,
                                   VoteFrom(action), policy, env.block_height)
             status == proposal_status(policy, voted.proposal, roles, env.block_timestamp)
             updated == [voted.proposal EXCEPT !.status = status]
         IN IF voted.panic # "" THEN Panic(self, voted.panic)
            ELSE IF status = "Approved"
            THEN Ok(Insert(internal_execute_proposal(self, policy, updated, id), id, updated),
                    None)
            ELSE IF status = "Removed"
            THEN Ok(Remove(self, id), None)
            ELSE Ok(Insert(self, id, updated), None)

\* The Finalize arm storing whatever status the policy derives.
FinalizeArm_any_status(self, env, id, proposal, policy) ==
    LET status == proposal_status(policy, proposal, RoleNames(policy), env.block_timestamp)
        updated == [proposal EXCEPT !.status = status]
    IN IF status = "Approved"
       THEN Ok(Insert(internal_execute_proposal(self, policy, updated, id), id, updated), None)
       ELSE Ok(Insert(self, id, updated), None)

\* Contract::act_proposal, the Finalize arm
FinalizeArm(self, env, id, proposal, policy) ==
    LET status == proposal_status(policy, proposal, RoleNames(policy), env.block_timestamp)
        updated == [proposal EXCEPT !.status = status]
    IN IF status = "Approved"
       THEN Ok(Insert(internal_execute_proposal(self, policy, updated, id), id, updated), None)
       ELSE IF status = "Expired"
       THEN Ok(Insert(self, id, updated), None)
       ELSE Panic(self, "ERR_PROPOSAL_NOT_EXPIRED_OR_FAILED")

\* act_proposal without the assertion that the action is allowed.
act_proposal_unchecked(self, env, id, action) ==
    IF id \notin DOMAIN self.proposals THEN Panic(self, "ERR_NO_PROPOSAL")
    ELSE
    LET proposal == self.proposals[id]
        policy == to_policy(self.policy)
        perm == can_execute_action(policy, internal_user_info(env), proposal.kind, action)
    IN CASE action = "AddProposal" -> Panic(self, "ERR_WRONG_ACTION")
         [] action = "RemoveProposal" -> Ok(Remove(self, id), None)
         [] action \in VoteActions ->
               VoteArm(self, env, id, proposal, policy, perm.roles, action)
         [] action = "Finalize" -> FinalizeArm(self, env, id, proposal, policy)
         [] action = "MoveToHub" -> Ok(self, None)

\* act_proposal whose MoveToHub marks the proposal Moved and writes it back.
act_proposal_moving(self, env, id, action) ==
    IF id \notin DOMAIN self.proposals THEN Panic(self, "ERR_NO_PROPOSAL")
    ELSE
    LET proposal == self.proposals[id]
        policy == to_policy(self.policy)
        perm == can_execute_action(policy, internal_user_info(env), proposal.kind, action)
    IN IF ~perm.allowed THEN Panic(self, "ERR_PERMISSION_DENIED")
       ELSE CASE action = "AddProposal" -> Panic(self, "ERR_WRONG_ACTION")
              [] action = "RemoveProposal" -> Ok(Remove(self, id), None)
              [] action \in VoteActions ->
                    VoteArm(self, env, id, proposal, policy, perm.roles, action)
              [] action = "Finalize" -> FinalizeArm(self, env, id, proposal, policy)
              [] action = "MoveToHub" ->
                    Ok(Insert(self, id, [proposal EXCEPT !.status = "Moved"]), None)

\* Contract::act_proposal
act_proposal(self, env, id, action) ==
    IF id \notin DOMAIN self.proposals THEN Panic(self, "ERR_NO_PROPOSAL")
    ELSE
    LET proposal == self.proposals[id]
        policy == to_policy(self.policy)
        perm == can_execute_action(policy, internal_user_info(env), proposal.kind, action)
    IN IF ~perm.allowed THEN Panic(self, "ERR_PERMISSION_DENIED")
       ELSE CASE action = "AddProposal" -> Panic(self, "ERR_WRONG_ACTION")
              [] action = "RemoveProposal" -> Ok(Remove(self, id), None)
              [] action \in VoteActions ->
                    VoteArm(self, env, id, proposal, policy, perm.roles, action)
              [] action = "Finalize" -> FinalizeArm(self, env, id, proposal, policy)
              [] action = "MoveToHub" -> Ok(self, None)

\* on_proposal_callback without the assertion on the number of results:
\* anything but a first result that is Successful counts as a failure.
on_proposal_callback_any_count(self, promise_results, proposal_id) ==
    IF proposal_id \notin DOMAIN self.proposals THEN Panic(self, "ERR_NO_PROPOSAL")
    ELSE LET proposal == self.proposals[proposal_id]
             reconciled ==
                IF promise_results # <<>> /\ promise_results[1] = "Successful"
                THEN internal_callback_proposal_success(proposal)
                ELSE internal_callback_proposal_fail(proposal)
         IN Ok(Insert(self, proposal_id, reconciled), None)

\* Contract::on_proposal_callback; promise_results are the results of the
\* promises the call was chained to (env::promise_results_count of them).
on_proposal_callback(self, promise_results, proposal_id) ==
    IF proposal_id \notin DOMAIN self.proposals THEN Panic(self, "ERR_NO_PROPOSAL")
    ELSE IF Len(promise_results) # 1 THEN Panic(self, "ERR_UNEXPECTED_CALLBACK_PROMISES")
    ELSE LET proposal == self.proposals[proposal_id]
             reconciled ==
                IF promise_results[1] = "Successful"
                THEN internal_callback_proposal_success(proposal)
                ELSE internal_callback_proposal_fail(proposal)
         IN Ok(Insert(self, proposal_id, reconciled), None)

\* ------------------------------------------------------------------ inputs
Policy2 ==
    [roles |-> <<[CouncilRole EXCEPT !.members = {"alice"}]>>,
     default_vote_policy |-> [weight_kind |-> "RoleWeight"],
     proposal_period |-> LongPeriod]

KindVote == [tag |-> "Vote"]

KindFunctionCall ==
    [tag |-> "FunctionCall", receiver_id |-> "app",
     actions |-> <<[method_name |-> "run", args |-> "e30=", deposit |-> 0, gas |-> 5]>>]

KindTransfer(token_id, msg) ==
    [tag |-> "Transfer", token_id |-> token_id, receiver_id |-> "bob",
     amount |-> 500, msg |-> msg]

KindChangePolicy(version) ==
    [tag |-> "ChangePolicy", policy |-> [version |-> version, policy |-> Policy2]]

KindAddMember == [tag |-> "AddMemberToRole", member_id |-> "eve", role |-> "community"]

KindRemoveMember == [tag |-> "RemoveMemberFromRole", member_id |-> "alice", role |-> "council"]

KindUpdateParameters ==
    [tag |-> "ChangePolicyUpdateParameters",
     parameters |-> [proposal_period |-> Some(LongPeriod)]]

KindChangeConfig == [tag |-> "ChangeConfig", config |-> "config2"]

KindAddOrUpdateRole ==
    [tag |-> "ChangePolicyAddOrUpdateRole",
     role |-> [name |-> "guests", members |-> {"eve"},
               permissions |-> {<<"*", a>> : a \in VoteActions}]]

KindRemoveRole == [tag |-> "ChangePolicyRemoveRole", role |-> "community"]

KindUpdateDefaultVotePolicy ==
    [tag |-> "ChangePolicyUpdateDefaultVotePolicy",
     vote_policy |-> [weight_kind |-> "TokenWeight"]]

KindUpgradeSelf == [tag |-> "UpgradeSelf", hash |-> "h1"]

KindUpgradeRemote ==
    [tag |-> "UpgradeRemote", receiver_id |-> "app", method_name |-> "upgrade", hash |-> "h1"]

KindSuggestion == [tag |-> "Suggestion", suggestion |-> "more solar"]

\* The kinds add_proposal is called with: each variant of ProposalKind, the
\* four shapes of a Transfer and the two versions of a ChangePolicy payload.
ProposalKinds ==
    {KindChangeConfig, KindChangePolicy("Current"), KindChangePolicy("Default"),
     KindAddMember, KindRemoveMember, KindFunctionCall, KindUpgradeSelf,
     KindUpgradeRemote,
     KindTransfer(OLD_BASE_TOKEN, None), KindTransfer(OLD_BASE_TOKEN, Some("m")),
     KindTransfer("token", None), KindTransfer("token", Some("m")),
     KindVote, KindAddOrUpdateRole, KindRemoveRole, KindUpdateDefaultVotePolicy,
     KindUpdateParameters, KindSuggestion}

ProposalInput(kind) == [description |-> "ping", kind |-> kind]

\* What a run is made of: the policy the contract is constructed with, and
\* the calls it draws from.  Either every kind and every account with one
\* proposal in the store's lifetime, or two kinds and two accounts with
\* MaxProposals of them under a token-weighted policy, or the two council
\* members with MaxProposals proposals of the kind that changes the council
\* under the proposals already voted on, all within one block.
Scopes == {"one proposal", "many proposals", "policy change"}

Scope(name) ==
    IF name = "one proposal"
    THEN [kinds |-> ProposalKinds, callers |-> Accounts, proposals |-> OneProposal,
          policy |-> InitialPolicy, time |-> MaxTime]
    ELSE IF name = "many proposals"
    THEN [kinds |-> {KindVote, KindFunctionCall}, callers |-> {"bob", "eve"},
          proposals |-> MaxProposals, policy |-> WeightedPolicy, time |-> MaxTime]
    ELSE [kinds |-> {KindRemoveMember}, callers |-> {"alice", "bob"},
          proposals |-> MaxProposals, policy |-> InitialPolicy, time |-> 0]

PromiseResults == {"Successful", "Failed"}

\* The results on_proposal_callback is entered with: none, one, or two.
ResultLists ==
    {<<>>} \cup {<<r>> : r \in PromiseResults} \cup {<<"Successful", "Failed">>}

\* ------------------------------------------------------------------- state
VARIABLES
    proposals,          \* Contract.proposals
    last_proposal_id,   \* Contract.last_proposal_id
    policy,             \* Contract.policy (a VersionedPolicy)
    config,             \* Contract.config
    now,                \* env::block_timestamp and env::block_height
    pending,            \* per proposal id: callbacks chained and not yet run
    vote_roles,         \* per proposal id and voter: the roles its vote counted for
    last,               \* the last call that returned: who called what, and its promises
    scope               \* the inputs this run draws from

vars ==
    <<proposals, last_proposal_id, policy, config, now, pending, vote_roles, last, scope>>

contract == <<proposals, last_proposal_id, policy, config>>

Self ==
    [proposals |-> proposals, last_proposal_id |-> last_proposal_id,
     policy |-> policy, config |-> config, promises |-> <<>>]

Env(caller) ==
    [predecessor_account_id |-> caller, block_timestamp |-> now, block_height |-> now]

\* The callbacks the promises of a call chain to proposal id.
Chained(promises, id) ==
    Cardinality({i \in 1 .. Len(promises) : promises[i].callback = Some(id)})

\* What the host leaves of a call r: one that returned is committed with the
\* promises it made; one that panicked is discarded whole, writes and
\* promises, and leaves the contract as it was.
After(r) == IF r.panic = "" THEN r.self ELSE Self

\* The host ends a call.  delivered: the proposal ids whose chained callback
\* this call is.  Only a call that returned is recorded in last.
Commit(call, r, delivered) ==
    LET made == After(r).promises
        left(i) == IF i \in delivered THEN pending[i] - 1 ELSE pending[i]
    IN /\ \A i \in Ids : left(i) + Chained(made, i) <= MaxPending
       /\ pending' = [i \in Ids |-> left(i) + Chained(made, i)]
       /\ proposals' = After(r).proposals
       /\ last_proposal_id' = After(r).last_proposal_id
       /\ policy' = After(r).policy
       /\ config' = After(r).config
       /\ last' = IF r.panic = "" THEN [call EXCEPT !.ret = r.ret, !.promises = made]
                  ELSE last

Call(method, caller, id, action) ==
    [method |-> method, caller |-> caller, id |-> id, action |-> action,
     ret |-> None, promises |-> <<>>]

NoId == -1

Init ==
    /\ proposals = <<>>
    /\ last_proposal_id = 0
    /\ scope \in Scopes
    /\ policy = [version |-> "Current", policy |-> Scope(scope).policy]
    /\ config = "config1"
    /\ now = 0
    /\ pending = [i \in Ids |-> 0]
    /\ vote_roles = [i \in Ids |-> <<>>]
    /\ last = Call("new", "", NoId, "")

AddProposal(caller, input) ==
    /\ last_proposal_id < Scope(scope).proposals
    /\ input.kind \in Scope(scope).kinds
    /\ caller \in Scope(scope).callers
    /\ Commit(Call("add_proposal", caller, NoId, ""),
              add_proposal(Self, Env(caller), input), {})
    /\ UNCHANGED <<now, vote_roles, scope>>

ActProposal(caller, id, action) ==
    LET r == act_proposal(Self, Env(caller), id, action)
        counted == can_execute_action(to_policy(policy), internal_user_info(Env(caller)),
                                      proposals[id].kind, action).roles
    IN /\ caller \in Scope(scope).callers
       /\ Commit(Call("act_proposal", caller, id, action), r, {})
       /\ vote_roles' =
            IF r.panic = "" /\ action \in VoteActions
            THEN [vote_roles EXCEPT ![id] =
                    [a \in DOMAIN @ \cup {caller} |->
                        IF a = caller THEN {counted[i] : i \in 1 .. Len(counted)} ELSE @[a]]]
            ELSE vote_roles
       /\ UNCHANGED <<now, scope>>

\* The host runs the callback chained to a settled promise with that
\* promise's one result; the contract's own account can also call the method
\* outside of any chain, with no result or with the results of a joint promise.
OnProposalCallback(id, results) ==
    /\ Len(results) = 1 => pending[id] > 0
    /\ Commit(Call("on_proposal_callback", "dao", id, ""),
              on_proposal_callback(Self, results, id),
              IF Len(results) = 1 THEN {id} ELSE {})
    /\ UNCHANGED <<now, vote_roles, scope>>

Tick ==
    /\ now < Scope(scope).time
    /\ now' = now + 1
    /\ UNCHANGED <<contract, pending, vote_roles, last, scope>>

Next ==
    \/ \E caller \in Accounts, kind \in ProposalKinds : AddProposal(caller, ProposalInput(kind))
    \/ \E caller \in Accounts, id \in Ids, action \in Actions : ActProposal(caller, id, action)
    \/ \E id \in Ids, results \in ResultLists : OnProposalCallback(id, results)
    \/ Tick

Spec == Init /\ [][Next]_vars

\* ------------------------------------------------------------------ claims
Stored == DOMAIN proposals

\* What the contract holds, as After gives it.
Unchanged(r) == After(r) = Self

Allowed(caller, kind, action) ==
    can_execute_action(to_policy(policy), internal_user_info(Env(caller)), kind, action).allowed

Act(caller, id, action) == act_proposal(Self, Env(caller), id, action)

\* C1 (as stated): a vote action by an account that already voted on a stored
\* proposal always fails with ERR_ALREADY_VOTED.
C1_AlwaysAlreadyVoted ==
    \A id \in Stored : \A a \in DOMAIN proposals[id].votes : \A action \in VoteActions :
        Act(a, id, action).panic = "ERR_ALREADY_VOTED"

\* C1 (amended): a vote action by an account that already voted on a stored
\* proposal always fails and leaves the contract, vote_counts and votes
\* included, as it was: with ERR_PERMISSION_DENIED when the policy no longer
\* allows the account the action, else with ERR_PROPOSAL_NOT_READY_FOR_VOTE
\* when the proposal is no longer InProgress, else with ERR_ALREADY_VOTED.
C1_DuplicateVoteFails ==
    \A id \in Stored : \A a \in DOMAIN proposals[id].votes : \A action \in VoteActions :
        LET r == Act(a, id, action)
        IN /\ r.panic =
                IF ~Allowed(a, proposals[id].kind, action) THEN "ERR_PERMISSION_DENIED"
                ELSE IF proposals[id].status # "InProgress"
                     THEN "ERR_PROPOSAL_NOT_READY_FOR_VOTE"
                     ELSE "ERR_ALREADY_VOTED"
           /\ Unchanged(r)

\* A voter of a proposal still open votes again and is refused as a duplicate.
C1_Witness ==
    \E id \in Stored : \E a \in DOMAIN proposals[id].votes :
        /\ proposals[id].status = "InProgress"
        /\ proposals[id].vote_counts # <<>>
        /\ Act(a, id, "VoteReject").panic = "ERR_ALREADY_VOTED"

AllRoleNames == {"council", "community", "guests"}

\* The voters of proposal id whose vote was the k-th kind and counted for role.
VotersFor(id, role, k) ==
    {a \in DOMAIN proposals[id].votes :
        /\ VoteIndex(proposals[id].votes[a].vote) = k
        /\ role \in vote_roles[id][a]}

\* C2: for every stored proposal, role and vote kind, vote_counts[role][kind]
\* is the number of voters whose recorded vote is of that kind and for whom
\* the role was among those the permission check returned when they voted;
\* every vote weighs 1, token-weighted or not.
C2_TallyMatchesVotes ==
    \A id \in Stored :
        /\ DOMAIN proposals[id].vote_counts \subseteq AllRoleNames
        /\ DOMAIN vote_roles[id] = DOMAIN proposals[id].votes
        /\ \A role \in AllRoleNames : \A k \in 1 .. 3 :
                Counts(proposals[id], role)[k] = Cardinality(VotersFor(id, role, k))

\* A vote under a token-weighted policy that counted for two roles at once.
C2_Witness ==
    \E id \in Stored : \E a \in DOMAIN proposals[id].votes :
        /\ is_token_weighted(to_policy(policy), "council", to_policy_label(proposals[id].kind))
        /\ vote_roles[id][a] = {"council", "community"}
        /\ proposals[id].vote_counts["community"] = <<0, 1, 0>>

Add(caller, kind) == add_proposal(Self, Env(caller), ProposalInput(kind))

\* What Policy::proposal_status derives for a stored proposal at Finalize.
Derived(id) ==
    proposal_status(to_policy(policy), proposals[id], RoleNames(to_policy(policy)), now)

\* C3 (as stated): whenever can_execute_action reports "not allowed" for the
\* caller, add_proposal and act_proposal (for every action but AddProposal)
\* fail with ERR_PERMISSION_DENIED and change nothing.
C3_DeniedMeansPermissionDenied ==
    \A caller \in Accounts :
        /\ \A kind \in ProposalKinds :
                ~Allowed(caller, kind, "AddProposal") =>
                    /\ Add(caller, kind).panic = "ERR_PERMISSION_DENIED"
                    /\ Unchanged(Add(caller, kind))
        /\ \A id \in Stored : \A action \in Actions \ {"AddProposal"} :
                ~Allowed(caller, proposals[id].kind, action) =>
                    /\ Act(caller, id, action).panic = "ERR_PERMISSION_DENIED"
                    /\ Unchanged(Act(caller, id, action))

\* C3 (amended): whenever can_execute_action reports "not allowed" for the
\* caller, act_proposal on a stored proposal fails with ERR_PERMISSION_DENIED
\* for every action, and add_proposal fails: with ERR_INVALID_POLICY for a
\* ChangePolicy payload that is not of the current version, with
\* ERR_BASE_TOKEN_NO_MSG for a Transfer of the base token with a message, and
\* with ERR_PERMISSION_DENIED otherwise.  The failed call changes nothing:
\* store, id counter, policy, config, promises.
C3_DeniedCallFails ==
    \A caller \in Accounts :
        /\ \A kind \in ProposalKinds :
                ~Allowed(caller, kind, "AddProposal") =>
                    /\ Add(caller, kind).panic =
                            IF kind.tag = "ChangePolicy" /\ kind.policy.version # "Current"
                            THEN "ERR_INVALID_POLICY"
                            ELSE IF /\ kind.tag = "Transfer"
                                    /\ kind.token_id = OLD_BASE_TOKEN
                                    /\ kind.msg # None
                            THEN "ERR_BASE_TOKEN_NO_MSG"
                            ELSE "ERR_PERMISSION_DENIED"
                    /\ Unchanged(Add(caller, kind))
        /\ \A id \in Stored : \A action \in Actions :
                ~Allowed(caller, proposals[id].kind, action) =>
                    /\ Act(caller, id, action).panic = "ERR_PERMISSION_DENIED"
                    /\ Unchanged(Act(caller, id, action))

\* An account outside every role is refused on a stored proposal that has a
\* callback pending, and refused a new proposal.
C3_Witness ==
    \E id \in Stored :
        /\ pending[id] > 0
        /\ \A action \in Actions \ {"AddProposal"} :
                /\ ~Allowed("eve", proposals[id].kind, action)
                /\ Act("eve", id, action).panic = "ERR_PERMISSION_DENIED"
        /\ Add("eve", KindVote).panic = "ERR_PERMISSION_DENIED"

\* C4: once a stored proposal is Expired, no step gives it another status;
\* the record stays Expired or is deleted by RemoveProposal.
C4_ExpiredIsTerminal ==
    [][\A id \in Stored :
            proposals[id].status = "Expired" =>
                IF id \in DOMAIN proposals'
                THEN proposals'[id].status = "Expired"
                ELSE last'.action = "RemoveProposal"]_vars

\* The promise internal_execute_proposal makes for a FunctionCall or Transfer.
EffectOf(proposal) ==
    IF proposal.kind.tag = "FunctionCall"
    THEN Promise(proposal.kind.receiver_id, "function_call", proposal.kind.actions)
    ELSE internal_payout(convert_old_to_new_token(proposal.kind.token_id),
                         proposal.kind.receiver_id, proposal.kind.amount,
                         proposal.description, proposal.kind.msg)

\* What a permitted Finalize does to a Failed proposal: Approved and the
\* effect dispatched again when the policy derives Approved, Expired with no
\* dispatch and the record kept when it derives Expired.
FinalizeResolvesFailed ==
    \A id \in Stored : \A caller \in Accounts :
        (proposals[id].status = "Failed" /\ Allowed(caller, proposals[id].kind, "Finalize")) =>
            LET r == Act(caller, id, "Finalize")
            IN /\ Derived(id) = "Approved" =>
                    /\ r.panic = ""
                    /\ r.self = [Self EXCEPT
                            !.proposals[id].status = "Approved",
                            !.promises = <<[EffectOf(proposals[id]) EXCEPT
                                                !.callback = Some(id)]>>]
               /\ Derived(id) = "Expired" =>
                    /\ r.panic = ""
                    /\ r.self = [Self EXCEPT !.proposals[id].status = "Expired"]

\* C5 (as stated): a failure is captured as Failed and resolved only by an
\* explicit Finalize: a Failed proposal leaves Failed only in a Finalize
\* step, and a permitted Finalize resolves it as FinalizeResolvesFailed says.
C5_FailedResolvedOnlyByFinalize ==
    /\ []FinalizeResolvesFailed
    /\ [][\A id \in Stored :
            (/\ proposals[id].status = "Failed"
             /\ id \in DOMAIN proposals'
             /\ proposals'[id].status # "Failed") => last'.action = "Finalize"]_vars

C7_RemovedNeverReturns ==
    /\ [](\A id \in Stored : \A caller \in Accounts :
            Allowed(caller, proposals[id].kind, "RemoveProposal") =>
                /\ Act(caller, id, "RemoveProposal").panic = ""
                /\ Act(caller, id, "RemoveProposal").self = Remove(Self, id))
    /\ [](\A id \in Ids :
            (id < last_proposal_id /\ id \notin Stored) =>
                /\ \A caller \in Accounts : \A action \in Actions :
                        Act(caller, id, action).panic = "ERR_NO_PROPOSAL"
                /\ \A results \in ResultLists :
                        on_proposal_callback(Self, results, id).panic = "ERR_NO_PROPOSAL")
    /\ [][\A id \in Ids :
            (id < last_proposal_id /\ id \notin Stored) => id \notin DOMAIN proposals']_vars

\* Proposal 0 was deleted and a later add_proposal made proposal 1.
C7_Witness ==
    /\ 0 \notin Stored
    /\ last.method = "add_proposal"
    /\ last.ret = Some(1)
    /\ 1 \in Stored

\* C8: the id counter only grows; a successful add_proposal returns the
\* counter and increments it by exactly 1; no other call, returned or failed,
\* changes it; every id in the store is smaller than the counter.
C8_IdCounter ==
    /\ [](\A id \in Stored : id < last_proposal_id)
    /\ [](\A caller \in Accounts : \A kind \in ProposalKinds :
            LET r == Add(caller, kind)
            IN IF r.panic = ""
               THEN /\ r.ret = Some(last_proposal_id)
                    /\ r.self.last_proposal_id = last_proposal_id + 1
               ELSE After(r).last_proposal_id = last_proposal_id)
    /\ [](\A id \in Ids :
            /\ \A caller \in Accounts : \A action \in Actions :
                    After(Act(caller, id, action)).last_proposal_id = last_proposal_id
            /\ \A results \in ResultLists :
                    After(on_proposal_callback(Self, results, id)).last_proposal_id
                        = last_proposal_id)
    /\ [][\/ last_proposal_id' = last_proposal_id
          \/ /\ last_proposal_id' = last_proposal_id + 1
             /\ last'.method = "add_proposal"
             /\ last'.ret = Some(last_proposal_id)]_vars

\* The second proposal was added after the first was removed, and got id 1.
C8_Witness ==
    /\ last_proposal_id = 2
    /\ Stored = {1}
    /\ last.method = "add_proposal"
    /\ last.ret = Some(1)

\* C9: a vote action by a permitted actor on a stored proposal that is not
\* InProgress fails with ERR_PROPOSAL_NOT_READY_FOR_VOTE and changes nothing.
C9_VoteOnClosedProposalFails ==
    \A id \in Stored : \A caller \in Accounts : \A action \in VoteActions :
        (proposals[id].status # "InProgress" /\ Allowed(caller, proposals[id].kind, action)) =>
            /\ Act(caller, id, action).panic = "ERR_PROPOSAL_NOT_READY_FOR_VOTE"
            /\ Unchanged(Act(caller, id, action))

\* A member who has not voted yet votes on a Failed proposal.
C9_Witness ==
    \E id \in Stored : \E caller \in Accounts :
        /\ proposals[id].status = "Failed"
        /\ caller \notin DOMAIN proposals[id].votes
        /\ Allowed(caller, proposals[id].kind, "VoteApprove")
        /\ Act(caller, id, "VoteApprove").panic = "ERR_PROPOSAL_NOT_READY_FOR_VOTE"

\* C10: a permitted Finalize on a stored proposal for which the policy derives
\* a status that is neither Approved nor Expired fails with
\* ERR_PROPOSAL_NOT_EXPIRED_OR_FAILED, makes no promise and leaves the record
\* and the rest of the contract as they were.
C10_FinalizeNotEligible ==
    \A id \in Stored : \A caller \in Accounts :
        (/\ Allowed(caller, proposals[id].kind, "Finalize")
         /\ Derived(id) \notin {"Approved", "Expired"}) =>
            /\ Act(caller, id, "Finalize").panic = "ERR_PROPOSAL_NOT_EXPIRED_OR_FAILED"
            /\ Unchanged(Act(caller, id, "Finalize"))

\* A Rejected proposal within its period, for which the policy derives Rejected.
C10_Witness ==
    \E id \in Stored : \E caller \in Accounts :
        /\ Allowed(caller, proposals[id].kind, "Finalize")
        /\ proposals[id].status = "Rejected"
        /\ Derived(id) = "Rejected"
        /\ Act(caller, id, "Finalize").panic = "ERR_PROPOSAL_NOT_EXPIRED_OR_FAILED"

\* Whether the policy reports the stored proposal expired at this time.
PeriodElapsed(id) ==
    proposals[id].submission_time + to_policy(policy).proposal_period < now

\* C11: a permitted Finalize on a stored proposal that is within its voting
\* period and whose status is InProgress, Approved or Rejected fails with
\* ERR_PROPOSAL_NOT_EXPIRED_OR_FAILED.
C11_FinalizeWithinPeriodFails ==
    \A id \in Stored : \A caller \in Accounts :
        (/\ Allowed(caller, proposals[id].kind, "Finalize")
         /\ ~PeriodElapsed(id)
         /\ proposals[id].status \in {"InProgress", "Approved", "Rejected"}) =>
            Act(caller, id, "Finalize").panic = "ERR_PROPOSAL_NOT_EXPIRED_OR_FAILED"

\* The one payment a Transfer proposal stands for, by token and msg, with the
\* callback of its proposal chained to it.
PaymentOf(id) ==
    LET p == proposals[id]
        k == p.kind
    IN IF k.token_id = OLD_BASE_TOKEN
       THEN [target |-> k.receiver_id, method |-> "transfer",
             args |-> <<k.amount>>, callback |-> Some(id)]
       ELSE IF k.msg # None
       THEN [target |-> k.token_id, method |-> "ft_transfer_call",
             args |-> <<k.receiver_id, k.amount, Some(p.description), k.msg[1]>>,
             callback |-> Some(id)]
       ELSE [target |-> k.token_id, method |-> "ft_transfer",
             args |-> <<k.receiver_id, k.amount, Some(p.description)>>,
             callback |-> Some(id)]

\* Whether the call r, a vote or a Finalize on proposal id, executed it: it
\* returned and left the proposal Approved.
Executes(r, id) ==
    /\ r.panic = ""
    /\ id \in DOMAIN r.self.proposals
    /\ r.self.proposals[id].status = "Approved"

\* C12: a vote or Finalize that executes a stored Transfer proposal makes
\* exactly one promise, the payment chosen by token and msg: a native transfer
\* of amount to receiver for the native token, ft_transfer_call(receiver,
\* amount, description, m) on the token for msg = Some(m), ft_transfer(receiver,
\* amount, description) on the token for msg = None; a call that does not
\* execute it makes none.
C12_TransferIssuesOnePayment ==
    \A id \in Stored : \A caller \in Accounts : \A action \in VoteActions \cup {"Finalize"} :
        proposals[id].kind.tag = "Transfer" =>
            LET r == Act(caller, id, action)
            IN After(r).promises = IF Executes(r, id) THEN <<PaymentOf(id)>> ELSE <<>>

\* The last call executed a Transfer of a token with a message, and made the
\* one ft_transfer_call.
C12_Witness ==
    /\ last.method = "act_proposal"
    /\ last.id \in Stored
    /\ proposals[last.id].kind = KindTransfer("token", Some("m"))
    /\ Len(last.promises) = 1
    /\ last.promises[1].method = "ft_transfer_call"
    /\ last.promises[1].args = <<"bob", 500, Some("ping"), "m">>
    /\ pending[last.id] = 1

\* C13: on_proposal_callback on a stored proposal with no promise result or
\* with more than one fails with ERR_UNEXPECTED_CALLBACK_PROMISES; it has
\* written nothing when it fails, and the store, the proposal's status
\* included, is as before.
C13_UnexpectedCallbackShape ==
    \A id \in Stored : \A results \in ResultLists :
        Len(results) # 1 =>
            LET r == on_proposal_callback(Self, results, id)
            IN /\ r.panic = "ERR_UNEXPECTED_CALLBACK_PROMISES"
               /\ r.self = Self
               /\ After(r).proposals = proposals

\* A proposal whose callback is pending is called back with no result, and
\* with two.
C13_Witness ==
    \E id \in Stored :
        /\ pending[id] > 0
        /\ proposals[id].status = "Approved"
        /\ on_proposal_callback(Self, <<>>, id).panic = "ERR_UNEXPECTED_CALLBACK_PROMISES"
        /\ on_proposal_callback(Self, <<"Successful", "Failed">>, id).panic
                = "ERR_UNEXPECTED_CALLBACK_PROMISES"

\* C14: an add_proposal that returns stores, under the id it returns, a
\* record with proposer the caller, the description and kind given, status
\* InProgress, no vote counts and no votes; the proposals stored before, the
\* policy and the config are unchanged, and no promise is made.
C14_AddStoresFreshProposal ==
    \A caller \in Accounts : \A kind \in ProposalKinds :
        LET r == Add(caller, kind)
            id == last_proposal_id
        IN r.panic = "" =>
            /\ r.ret = Some(id)
            /\ DOMAIN r.self.proposals = Stored \cup {id}
            /\ r.self.proposals[id].proposer = caller
            /\ r.self.proposals[id].description = ProposalInput(kind).description
            /\ r.self.proposals[id].kind = kind
            /\ r.self.proposals[id].status = "InProgress"
            /\ r.self.proposals[id].vote_counts = <<>>
            /\ r.self.proposals[id].votes = <<>>
            /\ \A other \in Stored \ {id} : r.self.proposals[other] = proposals[other]
            /\ r.self.policy = policy
            /\ r.self.config = config
            /\ r.self.promises = <<>>

\* Proposal 1 was just added next to proposal 0, which has a vote and is
\* still there.
C14_Witness ==
    /\ last.method = "add_proposal"
    /\ last.ret = Some(1)
    /\ Stored = {0, 1}
    /\ proposals[0].votes # <<>>
    /\ proposals[1].proposer = last.caller
    /\ proposals[1].status = "InProgress"
    /\ proposals[1].votes = <<>>

\* The failure add_proposal's validation has for a kind, "" when it has none.
InvalidKind(kind) ==
    IF kind.tag = "ChangePolicy" /\ kind.policy.version # "Current"
    THEN "ERR_INVALID_POLICY"
    ELSE IF kind.tag = "Transfer" /\ kind.token_id = OLD_BASE_TOKEN /\ kind.msg # None
    THEN "ERR_BASE_TOKEN_NO_MSG"
    ELSE ""

\* C15: add_proposal fails with ERR_BASE_TOKEN_NO_MSG for a Transfer of the
\* base token with a message and with ERR_INVALID_POLICY for a ChangePolicy
\* whose policy is not of the current version, whoever calls; it has written
\* nothing when it fails, so no record is stored, the counter is unchanged and
\* the next add_proposal that returns gets the id the failed call would have had.
C15_InvalidInputRejected ==
    \A caller \in Accounts : \A kind \in ProposalKinds :
        InvalidKind(kind) # "" =>
            LET r == Add(caller, kind)
            IN /\ r.panic = InvalidKind(kind)
               /\ r.self = Self
               /\ After(r).proposals = proposals
               /\ After(r).last_proposal_id = last_proposal_id
               /\ \A next \in Accounts : \A valid \in ProposalKinds :
                    LET n == add_proposal(After(r), Env(next), ProposalInput(valid))
                    IN n.panic = "" => n.ret = Some(last_proposal_id)

\* With id 0 used and 1 next, a council member is refused both invalid
\* inputs, and a valid input would get id 1.
C15_Witness ==
    /\ last_proposal_id = 1
    /\ Add("alice", KindTransfer(OLD_BASE_TOKEN, Some("m"))).panic = "ERR_BASE_TOKEN_NO_MSG"
    /\ Add("alice", KindChangePolicy("Default")).panic = "ERR_INVALID_POLICY"
    /\ Allowed("alice", KindChangePolicy("Default"), "AddProposal")
    /\ Add("alice", KindVote).ret = Some(1)

\* C16: a permitted MoveToHub on a stored proposal returns and leaves the
\* contract as it was - every proposal, the id counter, the policy, the
\* config - with no promise made; no stored proposal has status Moved.
C16_MoveToHubChangesNothing ==
    /\ \A id \in Stored : \A caller \in Accounts :
            Allowed(caller, proposals[id].kind, "MoveToHub") =>
                /\ Act(caller, id, "MoveToHub").panic = ""
                /\ Act(caller, id, "MoveToHub").self = Self
    /\ \A id \in Stored : proposals[id].status # "Moved"

\* The last call was a MoveToHub on a proposal whose callback is pending.
C16_Witness ==
    /\ last.method = "act_proposal"
    /\ last.action = "MoveToHub"
    /\ last.id \in Stored
    /\ proposals[last.id].status = "Approved"
    /\ proposals[last.id].votes # <<>>
    /\ pending[last.id] = 1

\* C17: no call on a stored proposal that is already Approved makes a promise
\* - every dispatch happens in a call that starts from another status - and
\* no proposal has two callbacks outstanding at once.
C17_DispatchOnlyOnTransition ==
    /\ \A id \in Stored : \A caller \in Accounts : \A action \in Actions :
            proposals[id].status = "Approved" =>
                After(Act(caller, id, action)).promises = <<>>
    /\ \A id \in Ids : pending[id] <= 1

\* A step gives the stored proposal id the status Expired.
BecomesExpired(id) ==
    /\ id \in DOMAIN proposals'
    /\ proposals'[id].status = "Expired"
    /\ (id \notin Stored \/ proposals[id].status # "Expired")

\* C18 (as stated): a proposal becomes Expired only in a Finalize, and a vote
\* that returns leaves the proposal InProgress, Approved or Rejected, or
\* deletes it.
C18_ExpiredOnlyByFinalize ==
    /\ [](\A id \in Stored : \A caller \in Accounts : \A action \in VoteActions :
            LET r == Act(caller, id, action)
            IN (r.panic = "" /\ id \in DOMAIN r.self.proposals) =>
                    r.self.proposals[id].status \in {"InProgress", "Approved", "Rejected"})
    /\ [][\A id \in Ids :
            BecomesExpired(id) =>
                /\ last'.method = "act_proposal"
                /\ last'.id = id
                /\ last'.action = "Finalize"]_vars

\* C18 (amended): a proposal becomes Expired only in a Finalize or a vote on
\* it; a vote that returns leaves the proposal Expired exactly when it is
\* cast after the voting period has elapsed, and else InProgress, Approved or
\* Rejected, or deletes it.
C18_ExpiredByFinalizeOrLateVote ==
    /\ [](\A id \in Stored : \A caller \in Accounts : \A action \in VoteActions :
            LET r == Act(caller, id, action)
            IN (r.panic = "" /\ id \in DOMAIN r.self.proposals) =>
                    IF PeriodElapsed(id)
                    THEN r.self.proposals[id].status = "Expired"
                    ELSE r.self.proposals[id].status \in {"InProgress", "Approved", "Rejected"})
    /\ [][\A id \in Ids :
            BecomesExpired(id) =>
                /\ last'.method = "act_proposal"
                /\ last'.id = id
                /\ last'.action \in VoteActions \cup {"Finalize"}]_vars

\* The last call was a vote cast after the period, and it left the proposal
\* Expired with the vote recorded.
C18_Witness ==
    /\ last.method = "act_proposal"
    /\ last.action \in VoteActions
    /\ last.id \in Stored
    /\ proposals[last.id].status = "Expired"
    /\ last.caller \in DOMAIN proposals[last.id].votes
    /\ PeriodElapsed(last.id)

\* The kinds whose execution is a promise with the callback chained to it.
AsyncKinds == {"FunctionCall", "Transfer"}

\* The promises of a list that have a callback chained, to any proposal.
WithCallback(promises) ==
    {i \in 1 .. Len(promises) : promises[i].callback # None}

\* C19: a vote or Finalize that executes a stored proposal chains exactly one
\* on_proposal_callback, for that proposal's id, when the kind is FunctionCall
\* or Transfer, and none for every other kind; a proposal of another kind
\* never has a callback outstanding, so no callback changes its status.
C19_OneContinuationOrNone ==
    /\ \A id \in Stored : \A caller \in Accounts : \A action \in VoteActions \cup {"Finalize"} :
            LET r == Act(caller, id, action)
            IN Executes(r, id) =>
                IF proposals[id].kind.tag \in AsyncKinds
                THEN /\ Cardinality(WithCallback(r.self.promises)) = 1
                     /\ Chained(r.self.promises, id) = 1
                ELSE WithCallback(r.self.promises) = {}
    /\ \A id \in Stored : proposals[id].kind.tag \notin AsyncKinds => pending[id] = 0

\* A Vote proposal was executed with no callback, and the last call executed
\* a FunctionCall proposal and chained one callback for it.
C19_Witness ==
    /\ Stored = {0, 1}
    /\ proposals[0].kind = KindVote
    /\ proposals[0].status = "Approved"
    /\ pending[0] = 0
    /\ proposals[1].kind = KindFunctionCall
    /\ last.method = "act_proposal"
    /\ last.id = 1
    /\ Chained(last.promises, 1) = 1
    /\ pending[1] = 1

\* C20: whenever a callback is outstanding for a proposal id, whatever calls
\* ran since the dispatch, on_proposal_callback with the one result returns
\* and leaves that proposal stored, Approved for a success and Failed for a
\* failure.
C20_CallbackAlwaysReconciles ==
    \A id \in Ids : \A result \in PromiseResults :
        pending[id] > 0 =>
            LET r == on_proposal_callback(Self, <<result>>, id)
            IN /\ r.panic = ""
               /\ id \in DOMAIN r.self.proposals
               /\ r.self.proposals[id].status =
                        IF result = "Successful" THEN "Approved" ELSE "Failed"

\* The votes of proposal with the vote of account for action recorded.
WithVote(votes, account, action) ==
    [a \in DOMAIN votes \cup {account} |->
        IF a = account THEN [vote |-> VoteFrom(action), blocknumber |-> now] ELSE votes[a]]

\* C21: the votes of a stored proposal are the votes that returned, each with
\* the kind cast.  A vote action that returns and keeps the record adds the
\* caller's entry and changes no other; one that fails has written nothing;
\* a new proposal starts with no votes; and in every step an entry of a
\* proposal that stays stored is kept as it is, a new entry being the caller's
\* of a vote on that proposal, with the kind of that vote.
C21_VotesAreSuccessfulVotes ==
    /\ [](\A id \in Stored : \A caller \in Accounts : \A action \in VoteActions :
            LET r == Act(caller, id, action)
            IN IF r.panic # "" THEN r.self = Self
               ELSE /\ caller \notin DOMAIN proposals[id].votes
                    /\ id \in DOMAIN r.self.proposals =>
                            r.self.proposals[id].votes =
                                WithVote(proposals[id].votes, caller, action))
    /\ [](\A id \in Stored : \A caller \in Accounts : \A result \in PromiseResults :
            LET f == Act(caller, id, "Finalize")
                m == Act(caller, id, "MoveToHub")
                c == on_proposal_callback(Self, <<result>>, id)
            IN /\ After(f).proposals[id].votes = proposals[id].votes
               /\ After(m).proposals[id].votes = proposals[id].votes
               /\ After(c).proposals[id].votes = proposals[id].votes)
    /\ [][\A id \in DOMAIN proposals' :
            IF id \notin Stored THEN proposals'[id].votes = <<>>
            ELSE LET old == proposals[id].votes
                     new == proposals'[id].votes
                 IN /\ \A a \in DOMAIN old : a \in DOMAIN new /\ new[a] = old[a]
                    /\ \A a \in DOMAIN new \ DOMAIN old :
                            /\ last'.method = "act_proposal"
                            /\ last'.id = id
                            /\ last'.caller = a
                            /\ last'.action \in VoteActions
                            /\ new[a].vote = VoteFrom(last'.action)]_vars

\* Two members voted differently, the proposal was executed and its callback
\* reported a failure: both entries are still as cast.
C21_Witness ==
    /\ last.method = "on_proposal_callback"
    /\ last.id \in Stored
    /\ proposals[last.id].status = "Failed"
    /\ DOMAIN proposals[last.id].votes = {"alice", "bob"}
    /\ proposals[last.id].votes["alice"].vote = "Reject"
    /\ proposals[last.id].votes["bob"].vote = "Approve"

\* The statuses a record in the store can have.
StoredStatuses == {"InProgress", "Approved", "Rejected", "Expired", "Failed"}

\* C22: every stored record is InProgress, Approved, Rejected, Expired or
\* Failed, never Removed or Moved: a vote for which the policy derives Removed
\* deletes the record and a Finalize for which it derives Removed fails.
\* Failed is written only by on_proposal_callback on a failed result: no
\* add_proposal and no act_proposal gives a record the status Failed, the
\* callback gives it exactly on a failure, and in every step a record that
\* becomes Failed does so in an on_proposal_callback for its id.
C22_StoredStatuses ==
    /\ [](\A id \in Stored : proposals[id].status \in StoredStatuses)
    /\ [](\A id \in Stored : \A caller \in Accounts :
            /\ \A action \in VoteActions :
                    LET r == Act(caller, id, action)
                    IN (r.panic = "" /\ id \in DOMAIN r.self.proposals) =>
                            r.self.proposals[id].status \in StoredStatuses \ {"Failed"}
            /\ (/\ Allowed(caller, proposals[id].kind, "Finalize")
                /\ Derived(id) = "Removed") => Act(caller, id, "Finalize").panic # ""
            /\ \A action \in Actions :
                    LET r == Act(caller, id, action)
                    IN (id \in DOMAIN After(r).proposals
                            /\ After(r).proposals[id].status = "Failed") =>
                                proposals[id].status = "Failed")
    /\ [](\A caller \in Accounts : \A kind \in ProposalKinds :
            \A id \in DOMAIN After(Add(caller, kind)).proposals \ Stored :
                After(Add(caller, kind)).proposals[id].status = "InProgress")
    /\ [](\A id \in Stored :
            /\ After(on_proposal_callback(Self, <<"Failed">>, id)).proposals[id].status
                    = "Failed"
            /\ After(on_proposal_callback(Self, <<"Successful">>, id)).proposals[id].status
                    # "Failed")
    /\ [][\A id \in DOMAIN proposals' :
            (/\ proposals'[id].status = "Failed"
             /\ (id \notin Stored \/ proposals[id].status # "Failed")) =>
                /\ last'.method = "on_proposal_callback"
                /\ last'.id = id]_vars

\* A VoteRemove just deleted proposal 0 at its quorum, while proposal 1 is
\* stored with the status Failed its callback gave it.
C22_Witness ==
    /\ last.method = "act_proposal"
    /\ last.action = "VoteRemove"
    /\ last.id = 0
    /\ Stored = {1}
    /\ last.caller \in DOMAIN vote_roles[0]
    /\ proposals[1].status = "Failed"

====
